---------------------------- MODULE Spec2Model ----------------------------
(***************************************************************************)
(* Movie Mixer: the MovieRecommender facade (src/src/model.py) and the     *)
(* text normalizers feeding it (src/src/preprocess.py).                    *)
(*                                                                         *)
(* Representation.  A catalog table (pandas DataFrame) is a sequence of    *)
(* rows [label, id, combined]: label is the row's DataFrame index label,   *)
(* combined the document as its sequence of whitespace-separated words.    *)
(* Row positions are 0-based as in numpy, so the row at position p is      *)
(* element p + 1 of a sequence.  Floating-point weights and similarity     *)
(* scores are kept in fixed point, in units of 1/Scale.                    *)
(***************************************************************************)
EXTENDS Integers, Sequences, FiniteSets

VARIABLES
    movies,         \* self.movies: the catalog table results are read from
    tfidf,          \* self.tfidf: the vectorizer (vocabulary and idf weights)
    tfidf_matrix,   \* self.tfidf_matrix: one L2-normalised row per catalog row
    cosine_sim,     \* self.cosine_sim: the pairwise similarity matrix
    id_to_index,    \* self.id_to_index: identifier -> row label
    result,         \* outcome of the last facade call
    remembered,     \* an earlier recommend call of the current fit, kept for comparison
    between,        \* a call with other arguments followed the remembered call
    cleaned         \* outcome of the last normalizer call

vars == <<movies, tfidf, tfidf_matrix, cosine_sim, id_to_index, result,
          remembered, between, cleaned>>

fitted == <<movies, tfidf, tfidf_matrix, cosine_sim, id_to_index>>

-----------------------------------------------------------------------------
(* Bounds *)

\* largest top_n a caller passes
MaxTopN == 3

-----------------------------------------------------------------------------
(* Small helpers *)

Range(s) == {s[i] : i \in DOMAIN s}

Min2(x, y) == IF x <= y THEN x ELSE y

RECURSIVE SumSeq(_)
SumSeq(s) == IF s = <<>> THEN 0 ELSE Head(s) + SumSeq(Tail(s))

Reverse(s) == [i \in 1..Len(s) |-> s[Len(s) + 1 - i]]

\* units per 1.0 of a float weight or score
Scale == 1000

RECURSIVE ISqrtIter(_, _)
ISqrtIter(x, g) ==
    LET n == (g + x \div g) \div 2
    IN  IF n >= g THEN g ELSE ISqrtIter(x, n)

\* floor of the square root, by Newton iteration from a start above the root:
\* 1024 = sqrt(2^20), and 46340 = floor(sqrt(2^31 - 1))
ISqrt(x) ==
    IF x < 2 THEN x
    ELSE ISqrtIter(x, IF x < 1048576 THEN Min2(x, 1024) ELSE Min2(x, 46340))

Dot(u, v) == SumSeq([i \in 1..Len(u) |-> u[i] * v[i]])

-----------------------------------------------------------------------------
(* preprocess.py: clean_genres, clean_keywords, preprocess_movies          *)

\* Python values: t is the type, s the text of a str or number, items the
\* elements of a list or the values of a dict, keys the keys of a dict
PyVal(t, str, items, keys) == [t |-> t, s |-> str, items |-> items, keys |-> keys]
PyStr(str) == PyVal("str", str, <<>>, <<>>)
PyInt(str) == PyVal("int", str, <<>>, <<>>)
PyFloat(str) == PyVal("float", str, <<>>, <<>>)
PyNone == PyVal("NoneType", "None", <<>>, <<>>)
PyList(items) == PyVal("list", "", items, <<>>)
PyDict(keys, items) == PyVal("dict", "", items, keys)

\* a missing CSV cell
NaN == PyFloat("nan")

Tag(id, name) == PyDict(<<"id", "name">>, <<PyInt(id), PyStr(name)>>)
TagNoName(id) == PyDict(<<"id">>, <<PyInt(id)>>)

\* ast.literal_eval on the cell texts of the model: the exception it raises
\* ("" for none) and the value it returns
Parsed(value) == [exc |-> "", value |-> value]
ParseError(exc) == [exc |-> exc, value |-> PyNone]

CellTexts ==
    {"[]",
     "[{'id': 28, 'name': 'Action'}, {'id': 12, 'name': 'Adventure'}]",
     "[{'id': 10749, 'name': 'Romance'}]",
     "[{'id': 18, 'name': 'Drama'}, {'id': 18, 'name': 'Drama'}]",
     "[{'id': 28, 'name': 'Action'",
     "Action",
     "",
     "''",
     "None",
     "5",
     "{'id': 28, 'name': 'Action'}",
     "[1, 2]",
     "['Action']",
     "[{'id': 28}]",
     "[{'id': 28, 'name': 'Action'}, {'id': 12}]",
     "[{'id': 28, 'name': 'Action'}, 7]",
     "[{'id': 28, 'name': 5}]"}

LiteralEval ==
    [text \in CellTexts |->
        CASE text = "[]" -> Parsed(PyList(<<>>))
          [] text = "[{'id': 28, 'name': 'Action'}, {'id': 12, 'name': 'Adventure'}]" ->
                Parsed(PyList(<<Tag("28", "Action"), Tag("12", "Adventure")>>))
          [] text = "[{'id': 10749, 'name': 'Romance'}]" ->
                Parsed(PyList(<<Tag("10749", "Romance")>>))
          [] text = "[{'id': 18, 'name': 'Drama'}, {'id': 18, 'name': 'Drama'}]" ->
                Parsed(PyList(<<Tag("18", "Drama"), Tag("18", "Drama")>>))
          [] text = "[{'id': 28, 'name': 'Action'" -> ParseError("SyntaxError")
          [] text = "Action" -> ParseError("ValueError")
          [] text = "" -> ParseError("SyntaxError")
          [] text = "''" -> Parsed(PyStr(""))
          [] text = "None" -> Parsed(PyNone)
          [] text = "5" -> Parsed(PyInt("5"))
          [] text = "{'id': 28, 'name': 'Action'}" -> Parsed(Tag("28", "Action"))
          [] text = "[1, 2]" -> Parsed(PyList(<<PyInt("1"), PyInt("2")>>))
          [] text = "['Action']" -> Parsed(PyList(<<PyStr("Action")>>))
          [] text = "[{'id': 28}]" -> Parsed(PyList(<<TagNoName("28")>>))
          [] text = "[{'id': 28, 'name': 'Action'}, {'id': 12}]" ->
                Parsed(PyList(<<Tag("28", "Action"), TagNoName("12")>>))
          [] text = "[{'id': 28, 'name': 'Action'}, 7]" ->
                Parsed(PyList(<<Tag("28", "Action"), PyInt("7")>>))
          [] text = "[{'id': 28, 'name': 5}]" ->
                Parsed(PyList(<<PyDict(<<"id", "name">>, <<PyInt("28"), PyInt("5")>>)>>))]

\* the raw cells of a genres or keywords column: a text, a missing value, a number
RawFields == {PyStr(text) : text \in CellTexts} \cup {NaN, PyFloat("7.0")}

\* pd.isna on a scalar
IsNa(v) == v = NaN \/ v = PyNone

\* "for g in value": the elements it yields, or TypeError
Iterate(v) ==
    CASE v.t = "list" -> Parsed(v)
      [] v.t = "dict" -> Parsed(PyList([i \in 1..Len(v.keys) |-> PyStr(v.keys[i])]))
      [] v.t = "str" -> Parsed(PyList(IF v.s = "" THEN <<>> ELSE <<PyStr("c")>>))
      [] OTHER -> ParseError("TypeError")

\* g['name']: a dict gives the value or KeyError, anything else TypeError
SubscriptName(g) ==
    IF g.t = "dict"
    THEN IF \E i \in 1..Len(g.keys) : g.keys[i] = "name"
         THEN Parsed(g.items[CHOOSE i \in 1..Len(g.keys) : g.keys[i] = "name"])
         ELSE ParseError("KeyError")
    ELSE ParseError("TypeError")

\* [g['name'] for g in items]: the first exception raised, or the names
RECURSIVE Names(_)
Names(items) ==
    IF items = <<>>
    THEN Parsed(PyList(<<>>))
    ELSE LET first == SubscriptName(Head(items))
         IN  IF first.exc # ""
             THEN ParseError(first.exc)
             ELSE LET rest == Names(Tail(items))
                  IN  IF rest.exc # ""
                      THEN rest
                      ELSE Parsed(PyList(<<first.value>> \o rest.value.items))

\* ' '.join(names): a string as the sequence of the joined names, or
\* TypeError when an element is no str
Join(names) ==
    IF \A i \in 1..Len(names) : names[i].t = "str"
    THEN [exc |-> "", value |-> [i \in 1..Len(names) |-> names[i].s]]
    ELSE [exc |-> "TypeError", value |-> <<>>]

Returned(words) == [exc |-> "", value |-> words]
Raised(exc) == [exc |-> exc, value |-> <<>>]

\* the exceptions the except clause names
Caught == {"ValueError", "SyntaxError", "KeyError"}

\* the try block of clean_genres and clean_keywords
ExtractNames(text) ==
    LET parsed == LiteralEval[text]
        elems == IF parsed.exc # "" THEN parsed ELSE Iterate(parsed.value)
        names == IF elems.exc # "" THEN elems ELSE Names(elems.value.items)
    IN  IF names.exc # "" THEN Raised(names.exc) ELSE Join(names.value.items)

\* clean_genres(genres): what it returns (exc = "") or the exception that
\* leaves it
clean_genres(genres) ==
    IF IsNa(genres) \/ genres = PyStr("[]")
    THEN Returned(<<>>)
    ELSE IF genres.t = "str"
         THEN LET out == ExtractNames(genres.s)
              IN  IF out.exc \in Caught THEN Returned(<<>>) ELSE out
         ELSE Returned(<<>>)

\* clean_keywords(keywords): the same code on the keywords cell
clean_keywords(keywords) ==
    IF IsNa(keywords) \/ keywords = PyStr("[]")
    THEN Returned(<<>>)
    ELSE IF keywords.t = "str"
         THEN LET out == ExtractNames(keywords.s)
              IN  IF out.exc \in Caught THEN Returned(<<>>) ELSE out
         ELSE Returned(<<>>)

NoClean ==
    [op |-> "none", exc |-> "", genres |-> NaN, keywords |-> NaN,
     genres_str |-> <<>>, keywords_str |-> <<>>, combined |-> <<>>]

CleanGenres(genres) ==
    /\ LET out == clean_genres(genres)
       IN  cleaned' = [NoClean EXCEPT !.op = "clean_genres", !.exc = out.exc,
                                      !.genres = genres, !.genres_str = out.value]
    /\ UNCHANGED <<fitted, result, remembered, between>>

CleanKeywords(keywords) ==
    /\ LET out == clean_keywords(keywords)
       IN  cleaned' = [NoClean EXCEPT !.op = "clean_keywords", !.exc = out.exc,
                                      !.keywords = keywords, !.keywords_str = out.value]
    /\ UNCHANGED <<fitted, result, remembered, between>>

\* preprocess_movies on a table of one record: the genres column is cleaned
\* first, then the keywords column, then the two are joined by a space
PreprocessMovies(genres, keywords) ==
    /\ LET g == clean_genres(genres)
           k == clean_keywords(keywords)
       IN  cleaned' =
             IF g.exc # ""
             THEN [NoClean EXCEPT !.op = "preprocess_movies", !.exc = g.exc,
                                  !.genres = genres, !.keywords = keywords]
             ELSE IF k.exc # ""
             THEN [NoClean EXCEPT !.op = "preprocess_movies", !.exc = k.exc,
                                  !.genres = genres, !.keywords = keywords,
                                  !.genres_str = g.value]
             ELSE [op |-> "preprocess_movies", exc |-> "",
                   genres |-> genres, keywords |-> keywords,
                   genres_str |-> g.value, keywords_str |-> k.value,
                   combined |-> g.value \o k.value]
    /\ UNCHANGED <<fitted, result, remembered, between>>

-----------------------------------------------------------------------------
(* TfidfVectorizer(stop_words='english').fit_transform                     *)

\* lowercase=True: the words of the modelled corpora and their lower-case form
Lower ==
    [w \in {"Action", "Adventure", "Romance", "Drama", "The"} |->
        CASE w = "Action"    -> "action"
          [] w = "Adventure" -> "adventure"
          [] w = "Romance"   -> "romance"
          [] w = "Drama"     -> "drama"
          [] w = "The"       -> "the"]

\* the members of sklearn's English stop-word list among the modelled words
StopWords == {"the"}

\* the feature order: sklearn sorts the vocabulary alphabetically
TermOrder == <<"action", "adventure", "drama", "romance", "the">>

\* analyzer: lower-case, tokenise, drop stop words
Tokens(doc) ==
    LET low == [i \in 1..Len(doc) |-> Lower[doc[i]]]
    IN  SelectSeq(low, LAMBDA t : t \notin StopWords)

\* vocabulary_: the terms surviving in at least one document, in feature order
Vocabulary(docs) ==
    SelectSeq(TermOrder,
              LAMBDA t : \E i \in 1..Len(docs) : t \in Range(Tokens(docs[i])))

\* term frequency of t in a document
TermCount(doc, t) == Len(SelectSeq(Tokens(doc), LAMBDA x : x = t))

\* document frequency of t
DocFreq(docs, t) ==
    Cardinality({i \in 1..Len(docs) : t \in Range(Tokens(docs[i]))})

\* smooth idf, ln((1 + n) / (1 + df)) + 1, in units of 1/Scale, indexed [n][df]
IdfTable ==
    <<  <<1000>>,
        <<1405, 1000>>,
        <<1693, 1288, 1000>>,
        <<1916, 1511, 1223, 1000>>,
        <<2099, 1693, 1405, 1182, 1000>>,
        <<2253, 1847, 1560, 1336, 1154, 1000>>  >>

Idf(docs, t) == IdfTable[Len(docs)][DocFreq(docs, t)]

\* sklearn.preprocessing.normalize(norm='l2'): a zero row stays zero
Normalize(v) ==
    LET n == ISqrt(Dot(v, v))
    IN  IF n = 0 THEN v ELSE [i \in 1..Len(v) |-> (v[i] * Scale) \div n]

\* one row of fit_transform: tf * idf, then L2-normalised
TfidfRow(docs, vocab, doc) ==
    Normalize([k \in 1..Len(vocab) |->
                  TermCount(doc, vocab[k]) * Idf(docs, vocab[k])])

TfidfMatrix(docs) ==
    LET vocab == Vocabulary(docs)
    IN  [i \in 1..Len(docs) |-> TfidfRow(docs, vocab, docs[i])]

\* sklearn cosine_similarity of one row against one vector: both are
\* normalised again, then multiplied
Cosine(x, y) == Dot(Normalize(x), Normalize(y)) \div Scale

-----------------------------------------------------------------------------
(* Catalogs handed to fit                                                  *)

Row(label, id, doc) == [label |-> label, id |-> id, combined |-> doc]

DocAA == <<"Action", "Adventure">>
DocRD == <<"Romance", "Drama">>
DocAR == <<"Action", "Romance">>
DocAD == <<"Action", "Drama">>
DocA == <<"Action">>
DocStop == <<"The">>
DocBlank == <<>>

\* the example of the specification: 1:'Action Adventure', 2:'Action Adventure',
\* 3:'Romance Drama', 4:'Action Romance'
CatExample ==
    <<Row(0, 1, DocAA), Row(1, 2, DocAA), Row(2, 3, DocRD), Row(3, 4, DocAR)>>

\* four items whose scores against most hybrids are pairwise different
CatGraded ==
    <<Row(0, 1, DocAA), Row(1, 2, DocAD), Row(2, 3, DocA), Row(3, 4, DocRD)>>

CatThree == <<Row(0, 1, DocAA), Row(1, 2, DocAR), Row(2, 3, DocRD)>>

CatTwo == <<Row(0, 1, DocAA), Row(1, 2, DocAR)>>

CatOne == <<Row(0, 1, DocA)>>

\* documents without any surviving token give all-zero rows
CatBlank ==
    <<Row(0, 1, DocAA), Row(1, 2, DocBlank), Row(2, 3, DocStop), Row(3, 4, DocAR)>>

\* identifier 1 is carried by two records, as the loader's merge leaves them
CatDup ==
    <<Row(0, 1, DocAA), Row(1, 2, DocAR), Row(2, 1, DocRD), Row(3, 3, DocA)>>

\* a filtered table whose index was not reset: labels are not the positions
CatShifted == <<Row(1, 1, DocAA), Row(2, 2, DocAR), Row(3, 3, DocRD)>>

\* a sorted table: labels are a permutation of the positions
CatPermuted == <<Row(2, 1, DocAR), Row(0, 2, DocAA), Row(1, 3, DocRD)>>

\* every document consists of stop words only
CatStop == <<Row(0, 1, DocStop), Row(1, 2, DocStop)>>

CatEmpty == <<>>

Catalogs ==
    {CatExample, CatGraded, CatThree, CatTwo, CatOne, CatBlank, CatDup,
     CatShifted, CatPermuted, CatStop, CatEmpty}

\* identifiers callers ask about: those of the catalogs and one in none of them
QueryIds == {1, 2, 3, 4, 9}

Docs(rows) == [i \in 1..Len(rows) |-> rows[i].combined]

Ids(rows) == {rows[i].id : i \in 1..Len(rows)}

-----------------------------------------------------------------------------
(* Facade state                                                            *)

\* a DataFrame attribute that is None, and one that holds a table
NoTable == [isNone |-> TRUE, rows |-> <<>>]
Table(rows) == [isNone |-> FALSE, rows |-> rows]

\* self.tfidf: None, a fresh TfidfVectorizer, a fitted one
NoVectorizer == [state |-> "None", vocabulary |-> <<>>, idf |-> <<>>]
FreshVectorizer == [state |-> "unfitted", vocabulary |-> <<>>, idf |-> <<>>]
FittedVectorizer(docs) ==
    LET vocab == Vocabulary(docs)
    IN  [state |-> "fitted", vocabulary |-> vocab,
         idf |-> [k \in 1..Len(vocab) |-> Idf(docs, vocab[k])]]

\* cosine_similarity(self.tfidf_matrix, self.tfidf_matrix)
CosineMatrix(m) == [i \in 1..Len(m) |-> [j \in 1..Len(m) |-> Cosine(m[i], m[j])]]

\* pd.Series(movies.index, index=movies['id']).to_dict(): identifier -> row
\* label; of several rows with one identifier the last one stays
IdToIndex(rows) ==
    [id \in Ids(rows) |->
        LET last == CHOOSE i \in 1..Len(rows) :
                        /\ rows[i].id = id
                        /\ \A j \in (i + 1)..Len(rows) : rows[j].id # id
        IN  rows[last].label]

\* the empty dict of __init__
EmptyIndex == [id \in {} |-> 0]

NoCall ==
    [op |-> "none", kind |-> "none", a |-> 0, b |-> 0, n |-> 0,
     sims |-> <<>>, order |-> <<>>, top |-> <<>>, ids |-> <<>>]

FitResult(kind) == [NoCall EXCEPT !.op = "fit", !.kind = kind]

Init ==
    /\ movies = NoTable
    /\ tfidf = NoVectorizer
    /\ tfidf_matrix = <<>>
    /\ cosine_sim = <<>>
    /\ id_to_index = EmptyIndex
    /\ result = NoCall
    /\ remembered = NoCall
    /\ between = FALSE
    /\ cleaned = NoClean

\* What a fit that runs to its end assigns, from the catalog alone
FitValues(rows) ==
    LET matrix == TfidfMatrix(Docs(rows))
    IN  [tfidf |-> FittedVectorizer(Docs(rows)),
         tfidf_matrix |-> matrix,
         cosine_sim |-> CosineMatrix(matrix),
         id_to_index |-> IdToIndex(rows)]

\* FitValues of every catalog of the model, computed once
FitValuesOf == [rows \in Catalogs |-> FitValues(rows)]

\* MovieRecommender.fit(movies).  fit_transform raises ValueError ("empty
\* vocabulary") when no document keeps a token; the two assignments before
\* it have then been made and the three after it have not.
Fit(rows) ==
    /\ movies' = Table(rows)
    /\ remembered' = NoCall
    /\ between' = FALSE
    /\ UNCHANGED cleaned
    /\ IF FitValuesOf[rows].tfidf.vocabulary = <<>>
       THEN /\ tfidf' = FreshVectorizer
            /\ result' = FitResult("ValueError")
            /\ UNCHANGED <<tfidf_matrix, cosine_sim, id_to_index>>
       ELSE /\ tfidf' = FitValuesOf[rows].tfidf
            /\ tfidf_matrix' = FitValuesOf[rows].tfidf_matrix
            /\ cosine_sim' = FitValuesOf[rows].cosine_sim
            /\ id_to_index' = FitValuesOf[rows].id_to_index
            /\ result' = FitResult("ok")

-----------------------------------------------------------------------------
(* MovieRecommender.recommend                                              *)

\* top_n: int = 3
DefaultTopN == 3

\* HybridVector taking the vector of the first item alone
HybridVectorFirst(vec1, vec2) == vec1

\* HybridVector with the element-wise maximum in place of the minimum
HybridVectorMax(vec1, vec2) ==
    [k \in 1..Len(vec1) |-> IF vec1[k] >= vec2[k] THEN vec1[k] ELSE vec2[k]]

\* np.minimum(vec1, vec2)
HybridVector(vec1, vec2) == [k \in 1..Len(vec1) |-> Min2(vec1[k], vec2[k])]

\* cosine_similarity(self.tfidf_matrix, hybrid_vector).flatten()
Similarities(matrix, hybrid) ==
    [i \in 1..Len(matrix) |-> Cosine(matrix[i], hybrid)]

\* Exclude on a score array kept from call to call: the marks of the
\* previous call are still in it
ExcludeStale(sims, idx1, idx2) ==
    [i \in 1..Len(sims) |->
        IF i - 1 = idx1 \/ i - 1 = idx2 THEN -Scale
        ELSE IF Len(result.sims) = Len(sims) /\ result.sims[i] = -Scale THEN -Scale
        ELSE sims[i]]

\* similarities[idx1] = -1; similarities[idx2] = -1
Exclude(sims, idx1, idx2) ==
    [i \in 1..Len(sims) |-> IF i - 1 = idx1 \/ i - 1 = idx2 THEN -Scale ELSE sims[i]]

\* the ascending orders of the positions in rest: a position of least score
\* first, then an ascending order of the others
RECURSIVE SortedOrders(_, _)
SortedOrders(sims, rest) ==
    IF rest = {}
    THEN {<<>>}
    ELSE LET least == {p \in rest : \A q \in rest : sims[p + 1] <= sims[q + 1]}
         IN  UNION {{<<p>> \o t : t \in SortedOrders(sims, rest \ {p})} : p \in least}

\* similarities.argsort(): the positions in ascending order of score.  The
\* default kind is quicksort, which is not stable: among equal scores every
\* order is a possible outcome.
ArgSorts(sims) == SortedOrders(sims, 0..(Len(sims) - 1))

\* TopIndices without the reversal: order[-top_n:]
TopIndicesUnreversed(order, top_n) ==
    LET len == Len(order)
        first == IF top_n >= len THEN 1 ELSE len - top_n + 1
    IN  SubSeq(order, first, len)

\* TopIndices slicing the wrong end: order[:top_n][::-1]
TopIndicesHead(order, top_n) ==
    Reverse(SubSeq(order, 1, Min2(top_n, Len(order))))

\* order[-top_n:][::-1]
TopIndices(order, top_n) ==
    LET len == Len(order)
        first == IF top_n >= len THEN 1 ELSE len - top_n + 1
    IN  Reverse(SubSeq(order, first, len))

\* IdsKnown with "and" in place of "or"
IdsKnownEither(index, movie_id1, movie_id2) ==
    ~(movie_id1 \notin DOMAIN index /\ movie_id2 \notin DOMAIN index)

\* the validation of the two identifiers
IdsKnown(index, movie_id1, movie_id2) ==
    ~(movie_id1 \notin DOMAIN index \/ movie_id2 \notin DOMAIN index)

Call(kind, a, b, n) ==
    [NoCall EXCEPT !.op = "recommend", !.kind = kind, !.a = a, !.b = b, !.n = n]

\* The sort routine is a function of its input: an array that the
\* remembered call sorted is sorted the same way again.
SortsAgree(sims, order) ==
    (remembered.order # <<>> /\ remembered.sims = sims) => order = remembered.order

\* The possible outcomes of recommend(movie_id1, movie_id2, top_n) in the
\* current state.  Subscripting the dict with an identifier it lacks raises
\* KeyError; indexing the matrix with a label that is no row position raises
\* IndexError, and so does iloc with a position the table lacks.
RecommendOutcomes(movie_id1, movie_id2, top_n) ==
    IF ~IdsKnown(id_to_index, movie_id1, movie_id2)
    THEN {Call("NotFound", movie_id1, movie_id2, top_n)}
    ELSE IF movie_id1 \notin DOMAIN id_to_index \/ movie_id2 \notin DOMAIN id_to_index
    THEN {Call("KeyError", movie_id1, movie_id2, top_n)}
    ELSE
      LET idx1 == id_to_index[movie_id1]
          idx2 == id_to_index[movie_id2]
          rows == Len(tfidf_matrix)
      IN  IF idx1 >= rows \/ idx2 >= rows
          THEN {Call("IndexError", movie_id1, movie_id2, top_n)}
          ELSE
            LET hybrid == HybridVector(tfidf_matrix[idx1 + 1], tfidf_matrix[idx2 + 1])
                sims == Exclude(Similarities(tfidf_matrix, hybrid), idx1, idx2)
            IN  { LET top == TopIndices(order, top_n)
                      inTable == \A i \in 1..Len(top) : top[i] < Len(movies.rows)
                  IN  [op |-> "recommend",
                       kind |-> IF inTable THEN "ok" ELSE "IndexError",
                       a |-> movie_id1, b |-> movie_id2, n |-> top_n,
                       sims |-> sims, order |-> order,
                       top |-> IF inTable THEN top ELSE <<>>,
                       ids |-> IF inTable
                               THEN [i \in 1..Len(top) |-> movies.rows[top[i] + 1].id]
                               ELSE <<>>]
                  : order \in {o \in ArgSorts(sims) : SortsAgree(sims, o)} }

\* A call of recommend.  It assigns no attribute of the instance.  keep
\* says whether this call becomes the remembered one (the first kept call
\* since the last fit stays remembered).
Recommend(movie_id1, movie_id2, top_n, keep) ==
    /\ keep => remembered.op = "none"
    /\ \E r \in RecommendOutcomes(movie_id1, movie_id2, top_n) :
          /\ result' = r
          /\ remembered' = IF keep THEN r ELSE remembered
    /\ between' = (between \/ (remembered.op = "recommend"
                                /\ <<movie_id1, movie_id2, top_n>> #
                                     <<remembered.a, remembered.b, remembered.n>>))
    /\ UNCHANGED <<fitted, cleaned>>

Next ==
    \/ \E rows \in Catalogs : Fit(rows)
    \/ \E a, b \in QueryIds, n \in 1..MaxTopN : Recommend(a, b, n, FALSE)

Spec == Init /\ [][Next]_vars

\* The facade as the application calls it, top_n left at its default, with
\* calls that may be remembered: the records compared hold the whole argsort
\* order, of which every top_n returns a slice.
NextKeep ==
    \/ \E rows \in Catalogs : Fit(rows)
    \/ \E a, b \in QueryIds, keep \in BOOLEAN : Recommend(a, b, DefaultTopN, keep)

SpecKeep == Init /\ [][NextKeep]_vars

\* the normalizers applied to raw cells
NextClean ==
    \/ \E v \in RawFields : CleanGenres(v)
    \/ \E v \in RawFields : CleanKeywords(v)
    \/ \E g, k \in RawFields : PreprocessMovies(g, k)

SpecClean == Init /\ [][NextClean]_vars

-----------------------------------------------------------------------------
(* Properties                                                              *)

\* the last call was a recommend that returned rows
Answered == result.op = "recommend" /\ result.kind = "ok"

\* the score, as used for the selection, of the i-th returned row
ScoreAt(i) == result.sims[result.top[i] + 1]

\* the positions left out of the result
LeftOut == (0..(Len(result.sims) - 1)) \ Range(result.top)

HasDuplicateIds(rows) ==
    \E i, j \in 1..Len(rows) : i # j /\ rows[i].id = rows[j].id

\* C1: for identifiers a # b of the index and any positive top_n, the result
\* of recommend(a, b, top_n) has no row whose identifier is a or b.
C1_NeverReturnsQueryItems ==
    (Answered /\ result.a # result.b) =>
        \A i \in 1..Len(result.ids) : result.ids[i] \notin {result.a, result.b}

\* C2: recommend(a, b, top_n) with a # b on a catalog of N items returns
\* exactly min(top_n, N - 2) items.
C2_ReturnsMinTopNOthers ==
    (Answered /\ result.a # result.b) =>
        Len(result.ids) = Min2(result.n, Len(tfidf_matrix) - 2)

\* C3: recommend with a or b absent from the identifier index (also on an
\* instance never fitted) ends in the not-found outcome and returns no rows.
C3_AbsentIdIsNotFound ==
    (result.op = "recommend"
        /\ (result.a \notin DOMAIN id_to_index \/ result.b \notin DOMAIN id_to_index))
    => (result.kind = "NotFound" /\ result.top = <<>> /\ result.ids = <<>>)

\* a call with one identifier of the index and one absent from it was refused
C3_Witness ==
    /\ result.kind = "NotFound"
    /\ result.a \in DOMAIN id_to_index
    /\ result.b \notin DOMAIN id_to_index

\* C4: fit on a catalog in which two records carry one identifier fails with
\* InvalidCatalog, and recommend never answers over such a catalog.
C4_DuplicateIdsRejected ==
    HasDuplicateIds(movies.rows) =>
        /\ result.op = "fit" => result.kind = "InvalidCatalog"
        /\ result.op = "recommend" => result.kind # "ok"

\* C5: the scores of the returned rows, as used for the selection, are
\* non-increasing along the result.
C5_ScoresNonIncreasing ==
    Answered => \A i \in 1..(Len(result.top) - 1) : ScoreAt(i) >= ScoreAt(i + 1)

\* a result of three rows with three different scores
C5_Witness ==
    /\ Answered
    /\ Len(result.top) = 3
    /\ ScoreAt(1) > ScoreAt(2)
    /\ ScoreAt(2) > ScoreAt(3)

C7_FitReplacesAtomically ==
    id_to_index # EmptyIndex =>
        \E rows \in Catalogs :
            /\ movies = Table(rows)
            /\ tfidf = FitValuesOf[rows].tfidf
            /\ tfidf_matrix = FitValuesOf[rows].tfidf_matrix
            /\ id_to_index = FitValuesOf[rows].id_to_index

\* the cell decodes into a list of objects each having a str name
Decodable(cell) ==
    /\ cell.t = "str"
    /\ LiteralEval[cell.s].exc = ""
    /\ LET v == LiteralEval[cell.s].value
       IN  /\ v.t = "list"
           /\ \A i \in 1..Len(v.items) :
                 /\ v.items[i].t = "dict"
                 /\ SubscriptName(v.items[i]).exc = ""
                 /\ SubscriptName(v.items[i]).value.t = "str"

\* C8: clean_genres and clean_keywords never let an exception out, and
\* return the empty string for a cell that is missing or does not decode
\* into a list of objects each having a name.
C8_NormalizersNeverRaise ==
    /\ cleaned.op = "clean_genres" =>
          /\ cleaned.exc = ""
          /\ ~Decodable(cleaned.genres) => cleaned.genres_str = <<>>
    /\ cleaned.op = "clean_keywords" =>
          /\ cleaned.exc = ""
          /\ ~Decodable(cleaned.keywords) => cleaned.keywords_str = <<>>

\* the last call was recommend(1, 3, top_n=2) on the fitted example catalog
ExampleQuery ==
    /\ movies = Table(CatExample)
    /\ tfidf_matrix = TfidfMatrix(Docs(CatExample))
    /\ id_to_index = IdToIndex(CatExample)
    /\ Answered
    /\ result.a = 1 /\ result.b = 3 /\ result.n = 2

\* C9 as stated: on the example catalog recommend(1, 3, top_n=2) ranks item 4
\* ahead of item 2.
C9_Item4AheadOfItem2 == ExampleQuery => result.ids = <<4, 2>>

\* C9 as amended: on the example catalog the hybrid of items 1 and 3 is the
\* zero vector, and recommend(1, 3, top_n=2) returns items 2 and 4 with the
\* same score 0.
C9_Items2And4TieAtZero ==
    ExampleQuery =>
        /\ Range(result.ids) = {2, 4}
        /\ ScoreAt(1) = 0
        /\ ScoreAt(2) = 0

\* the example query answered with item 4 first
C9_Witness == ExampleQuery /\ result.ids = <<4, 2>>

\* the i-th returned row is not one of the two query rows
Scored(i) == ScoreAt(i) # -Scale

\* C10 as stated: returned rows of equal score are in ascending position, and
\* of equal scores across the cut-off the lower positions are returned (rows
\* other than the two query rows).
C10_TiesAscending ==
    Answered =>
        /\ \A i, j \in 1..Len(result.top) :
              (i < j /\ Scored(i) /\ ScoreAt(i) = ScoreAt(j))
                  => result.top[i] < result.top[j]
        /\ \A i \in 1..Len(result.top) : \A u \in LeftOut :
              (Scored(i) /\ result.sims[u + 1] = ScoreAt(i)) => result.top[i] < u

\* C10 as amended: the selection is by score alone: no row left out has a
\* higher score than a returned row (the order of equal scores, and which of
\* them are returned at the cut-off, is not fixed by position).
C10_SelectionByScore ==
    Answered =>
        \A i \in 1..Len(result.top) : \A u \in LeftOut :
            result.sims[u + 1] <= ScoreAt(i)

\* equal scores across the cut-off with the higher position returned, and
\* two returned rows of equal score in descending position (none of them a
\* query row)
C10_Witness ==
    /\ Answered
    /\ \E i \in 1..Len(result.top) : \E u \in LeftOut :
          Scored(i) /\ result.sims[u + 1] = ScoreAt(i) /\ u < result.top[i]
    /\ \E i, j \in 1..Len(result.top) :
          i < j /\ Scored(i) /\ ScoreAt(i) = ScoreAt(j) /\ result.top[i] > result.top[j]

\* the position, from 0, of the row of the catalog carrying the identifier
PositionOf(rows, id) == CHOOSE p \in 0..(Len(rows) - 1) : rows[p + 1].id = id

\* the matrix and the index are those a fit on the catalog assigns
FittedFrom(rows) ==
    /\ tfidf_matrix = FitValuesOf[rows].tfidf_matrix
    /\ id_to_index = FitValuesOf[rows].id_to_index

\* C11: after a successful fit on a catalog of N items with distinct
\* identifiers, the index maps every identifier of the catalog to the
\* position of its own row, onto 0..N-1, whatever the row labels; and a
\* recommend(a, b, .) on that fitted state answers from the hybrid of the
\* rows of a and b with exactly their two positions excluded.
C11_IndexMapsIdsToPositions ==
    LET rows == movies.rows
    IN  ~HasDuplicateIds(rows) =>
          /\ (result.op = "fit" /\ result.kind = "ok") =>
                /\ DOMAIN id_to_index = Ids(rows)
                /\ \A id \in Ids(rows) : id_to_index[id] = PositionOf(rows, id)
                /\ {id_to_index[id] : id \in Ids(rows)} = 0..(Len(rows) - 1)
          /\ (result.op = "recommend" /\ FittedFrom(rows)
                /\ result.a \in Ids(rows) /\ result.b \in Ids(rows)) =>
                /\ result.kind = "ok"
                /\ LET pa == PositionOf(rows, result.a)
                       pb == PositionOf(rows, result.b)
                       hybrid == HybridVector(tfidf_matrix[pa + 1], tfidf_matrix[pb + 1])
                   IN  result.sims =
                           Exclude(Similarities(tfidf_matrix, hybrid), pa, pb)

\* the last call has the two identifiers of the remembered call exchanged
\* and its top_n
SwappedCall(last, kept) ==
    /\ last.op = "recommend"
    /\ kept.op = "recommend"
    /\ last.a = kept.b
    /\ last.b = kept.a
    /\ last.n = kept.n

\* C12: recommend(b, a, top_n) ends as the remembered recommend(a, b, top_n)
\* did on the same fitted state: the same outcome, the same scores with the
\* same positions excluded, the same rows in the same order, and so for the
\* slice of every top_n.
C12_RecommendSymmetric ==
    [][SwappedCall(result', remembered') =>
          /\ result'.kind = remembered'.kind
          /\ result'.sims = remembered'.sims
          /\ result'.top = remembered'.top
          /\ result'.ids = remembered'.ids
          /\ \A n \in 1..MaxTopN :
                TopIndices(result'.order, n) = TopIndices(remembered'.order, n)]_vars

\* recommend(b, a, .) answered after the remembered recommend(a, b, .) for
\* two items of different vectors, over scores some of which are equal and
\* some returned one positive
C12_Witness ==
    /\ Answered
    /\ SwappedCall(result, remembered)
    /\ result.a # result.b
    /\ tfidf_matrix[id_to_index[result.a] + 1] # tfidf_matrix[id_to_index[result.b] + 1]
    /\ result.ids = remembered.ids
    /\ Cardinality(ArgSorts(result.sims)) > 1
    /\ \E i \in 1..Len(result.top) : ScoreAt(i) > 0

=============================================================================
